---------------------------- MODULE Spec2Model ----------------------------
(***************************************************************************)
(* Model of src/simple_logistic_regression.py: the grid approximation of   *)
(* the bioassay posterior (BDA 3.7), sampling from the grid with jitter,   *)
(* and the normal approximation at the mode (BDA 4.1).                     *)
(*                                                                         *)
(* Numbers.  A float is a record [k, n, d]: k = "fin" with the value n/d   *)
(* (d > 0, in lowest terms), or one of the IEEE specials "inf", "ninf",    *)
(* "nan".  Finite values are kept exact (no mantissa rounding); what is    *)
(* kept of IEEE arithmetic is the range (overflow to an infinity above     *)
(* 2^ExpRange, flush to zero below 2^-ExpRange) and the arithmetic of the  *)
(* specials (inf * 0 = nan, inf - inf = nan, 0 / 0 = nan, x / inf = 0).    *)
(* np.exp is the base-2 exponential of the floor of its argument and       *)
(* np.log the floor of the base-2 logarithm, so that both stay rational.   *)
(*                                                                         *)
(* Configuration.  grid_num, the axis limits and the seed are literals of  *)
(* the notebook (64, [-4, 10] x [-10, 40], 135791); here they are drawn    *)
(* from small sets, which hold limits inside the float range and limits    *)
(* whose scores overflow np.exp.                                           *)
(*                                                                         *)
(* Execution.  The notebook is Python 2: throws / grid_num is the integer  *)
(* division of an integer array.  The cells run in order, one statement    *)
(* per step; the sampling cell may be executed again before the next one;  *)
(* an exception stops the run.                                             *)
(***************************************************************************)
EXTENDS Integers, Sequences, FiniteSets

\* ------------------------------------------------------------ bounds
\* exponent range of the float format: finite magnitudes lie in
\* [2^-ExpRange, 2^ExpRange]
ExpRange == 10
\* largest grid_num the configuration draws
MaxGridNum == 3
\* number of draws of the sampling cell (1000 in the notebook)
NumSamples == 2
\* the random source is a generator with 2^RngBits states
RngBits == 3
\* how many times the sampling cell is executed at most
MaxRuns == 2

\* ------------------------------------------------------------ rationals
Abs(a) == IF a < 0 THEN -a ELSE a

RECURSIVE Gcd(_, _)
Gcd(a, b) == IF b = 0 THEN a ELSE Gcd(b, a % b)

RECURSIVE Pow2(_)
Pow2(e) == IF e = 0 THEN 1 ELSE 2 * Pow2(e - 1)

\* the finite float n/d, in lowest terms
Fin(n, d) ==
    LET g == Gcd(Abs(n), d)
    IN  IF n = 0 THEN [k |-> "fin", n |-> 0, d |-> 1]
        ELSE [k |-> "fin", n |-> n \div g, d |-> d \div g]

PInf == [k |-> "inf", n |-> 0, d |-> 1]
NInf == [k |-> "ninf", n |-> 0, d |-> 1]
NaN  == [k |-> "nan", n |-> 0, d |-> 1]
Zero == Fin(0, 1)
One  == Fin(1, 1)
Int2F(i) == Fin(i, 1)

IsFin(a) == a.k = "fin"
IsZero(a) == IsFin(a) /\ a.n = 0
\* sign of a float that is no NaN: -1, 0, 1
Sgn(a) ==
    CASE a.k = "inf" -> 1
      [] a.k = "ninf" -> -1
      [] OTHER -> IF a.n > 0 THEN 1 ELSE IF a.n < 0 THEN -1 ELSE 0

\* the result n/d of an operation, brought into the float range
\* a / b > c for positive integers, without forming b * c
QuotientAbove(a, b, c) == (a \div b > c) \/ (a \div b = c /\ a % b > 0)

Round(n, d) ==
    IF n = 0 THEN Zero
    ELSE IF QuotientAbove(Abs(n), d, Pow2(ExpRange)) THEN
        (IF n > 0 THEN PInf ELSE NInf)
    ELSE IF QuotientAbove(d, Abs(n), Pow2(ExpRange)) THEN Zero
    ELSE Fin(n, d)

FNeg(a) ==
    CASE a.k = "nan" -> NaN
      [] a.k = "inf" -> NInf
      [] a.k = "ninf" -> PInf
      [] OTHER -> Fin(-a.n, a.d)

FAdd(a, b) ==
    IF a.k = "nan" \/ b.k = "nan" THEN NaN
    ELSE IF ~IsFin(a) /\ ~IsFin(b) THEN (IF a.k = b.k THEN a ELSE NaN)
    ELSE IF ~IsFin(a) THEN a
    ELSE IF ~IsFin(b) THEN b
    ELSE Round(a.n * b.d + b.n * a.d, a.d * b.d)

FSub(a, b) == FAdd(a, FNeg(b))

FMul(a, b) ==
    IF a.k = "nan" \/ b.k = "nan" THEN NaN
    ELSE IF IsFin(a) /\ IsFin(b) THEN Round(a.n * b.n, a.d * b.d)
    ELSE IF Sgn(a) * Sgn(b) = 0 THEN NaN
    ELSE IF Sgn(a) * Sgn(b) > 0 THEN PInf ELSE NInf

FDiv(a, b) ==
    IF a.k = "nan" \/ b.k = "nan" THEN NaN
    ELSE IF ~IsFin(a) /\ ~IsFin(b) THEN NaN
    ELSE IF ~IsFin(b) THEN Zero
    ELSE IF IsZero(b) THEN
        (IF Sgn(a) = 0 THEN NaN ELSE IF Sgn(a) > 0 THEN PInf ELSE NInf)
    ELSE IF ~IsFin(a) THEN (IF Sgn(a) * Sgn(b) > 0 THEN PInf ELSE NInf)
    ELSE IF b.n > 0 THEN Round(a.n * b.d, a.d * b.n)
    ELSE Round(-(a.n * b.d), a.d * (-b.n))

\* a < b and a <= b; every comparison with a NaN is false
FLess(a, b) ==
    /\ a.k # "nan" /\ b.k # "nan"
    /\ IF IsFin(a) /\ IsFin(b) THEN a.n * b.d < b.n * a.d
       ELSE IF a.k = b.k THEN FALSE
       ELSE a.k = "ninf" \/ b.k = "inf"

FLeq(a, b) == a.k # "nan" /\ b.k # "nan" /\ ~FLess(b, a)

\* floor(n/d) for d > 0
Floor(n, d) == IF n >= 0 THEN n \div d ELSE -((-n + d - 1) \div d)

\* the largest e >= 0 with d * 2^e <= n, for n >= d > 0
RECURSIVE Log2Floor(_, _)
Log2Floor(n, d) == IF n < 2 * d THEN 0 ELSE 1 + Log2Floor(n, 2 * d)

\* the smallest e >= 0 with n <= d * 2^e, for n, d > 0
RECURSIVE Log2Ceil(_, _)
Log2Ceil(n, d) == IF n <= d THEN 0 ELSE 1 + Log2Ceil(n, 2 * d)

\* np.exp
FExp(a) ==
    CASE a.k = "nan" -> NaN
      [] a.k = "inf" -> PInf
      [] a.k = "ninf" -> Zero
      [] OTHER ->
            LET e == Floor(a.n, a.d)
            IN  IF e > ExpRange THEN PInf
                ELSE IF e < -ExpRange THEN Zero
                ELSE IF e >= 0 THEN Fin(Pow2(e), 1)
                ELSE Fin(1, Pow2(-e))

\* np.log
FLog(a) ==
    CASE a.k = "nan" -> NaN
      [] a.k = "inf" -> PInf
      [] a.k = "ninf" -> NaN
      [] OTHER ->
            IF a.n < 0 THEN NaN
            ELSE IF a.n = 0 THEN NInf
            ELSE IF a.n >= a.d THEN Int2F(Log2Floor(a.n, a.d))
            ELSE Int2F(-Log2Ceil(a.d, a.n))

\* ------------------------------------------------------------ data
\* Data from Racine et al. (1986): one record per dose group
bioassay_df ==
    << [dose |-> Fin(-86, 100), animals |-> 5, deaths |-> 0],
       [dose |-> Fin(-30, 100), animals |-> 5, deaths |-> 1],
       [dose |-> Fin(-5, 100),  animals |-> 5, deaths |-> 3],
       [dose |-> Fin(73, 100),  animals |-> 5, deaths |-> 5] >>

\* the axis limits the configuration draws: (theta1_min, theta1_max) and
\* (theta2_min, theta2_max)
Theta1Limits == { <<0, 2>>, <<-1, 3>>, <<0, 12>>, <<12, 14>> }
Theta2Limits == { <<0, 10>>, <<-1, 0>> }

\* the seeds and the states the global generator may be in before seeding
RngMod == Pow2(RngBits)
Seeds == {1, 6, 7}
RngStates == {0, 3}

VARIABLES
    pc,             \* the statement the notebook executes next
    err,            \* the exception that stopped the run, "" when none
    grid_num, theta1_min, theta1_max, theta2_min, theta2_max,
    seed,           \* the argument of np.random.seed
    rng,            \* state of the global generator np.random
    mem,            \* the 1-D float arrays allocated so far, by address
    x, y,           \* addresses of the two axis arrays (0: unbound)
    X, Y,           \* meshgrid matrices, X[i][j] = x[j], Y[i][j] = y[i]
    log_Z, max_log_Z, Z,
    probs, throws,
    theta1s, theta2s,   \* addresses of the sample arrays (0: unbound)
    res, theta_mode,
    runs,           \* executions of the sampling cell completed
    prev_samples,   \* the samples of the previous execution of the cell
    rng_log         \* what each number drawn from np.random was used for

config == <<grid_num, theta1_min, theta1_max, theta2_min, theta2_max, seed>>
grid == <<X, Y, log_Z, max_log_Z, Z>>
sampling == <<probs, throws, theta1s, theta2s>>
laplace == <<res, theta_mode>>
history == <<runs, prev_samples, rng_log>>
vars == <<pc, err, config, rng, mem, x, y, grid, sampling, laplace, history>>

\* ------------------------------------------------------------ arrays
\* a[i] of the source is a[i + 1] here: sequences count from 1
Shape(A) == <<Len(A), IF Len(A) = 0 THEN 0 ELSE Len(A[1])>>

\* np.ravel: the row-major flattening of a matrix
Ravel(A) ==
    LET C == Shape(A)[2]
    IN  [k \in 1..(Len(A) * C) |-> A[((k - 1) \div C) + 1][((k - 1) % C) + 1]]

\* np.linspace(start, stop, num), num >= 2
Linspace(start, stop, num) ==
    LET step == FDiv(FSub(Int2F(stop), Int2F(start)), Int2F(num - 1))
    IN  [j \in 1..num |-> FAdd(Int2F(start), FMul(Int2F(j - 1), step))]

\* np.meshgrid(xv, yv), indexing 'xy': both results have len(yv) rows and
\* len(xv) columns
MeshgridX(xv, yv) == [i \in 1..Len(yv) |-> [j \in 1..Len(xv) |-> xv[j]]]
MeshgridY(xv, yv) == [i \in 1..Len(yv) |-> [j \in 1..Len(xv) |-> yv[i]]]

\* ------------------------------------------------------------ log-posterior
RECURSIVE SumSkipNaN(_)
SumSkipNaN(s) ==
    IF Len(s) = 0 THEN Zero
    ELSE IF s[1].k = "nan" THEN SumSkipNaN(Tail(s))
    ELSE FAdd(s[1], SumSkipNaN(Tail(s)))

\* np.sum of a pandas Series: Series.sum, which leaves the NaN entries out
\* (skipna) and is NaN when every entry is one
SeriesSum(s) ==
    IF \A i \in 1..Len(s) : s[i].k = "nan" THEN NaN ELSE SumSkipNaN(s)

\* prediction score of one dose group
Score(theta_1, theta_2, covariate) == FAdd(theta_1, FMul(theta_2, covariate))

\* one group's term of the log-likelihood:
\* -np.log(1 + exp(-scores)) * successes - np.log(1 + exp(scores)) * (trials - successes)
LogLikTerm(score, trials, successes) ==
    FSub(FMul(FNeg(FLog(FAdd(One, FExp(FNeg(score))))), Int2F(successes)),
         FMul(FLog(FAdd(One, FExp(score))), Int2F(trials - successes)))

\* the default log_prior, lambda t1, t2: 0
log_prior(t1, t2) == Zero

log_posterior_helper(theta_1, theta_2, df) ==
    LET terms == [i \in 1..Len(df) |->
                    LogLikTerm(Score(theta_1, theta_2, df[i].dose),
                               df[i].animals, df[i].deaths)]
    IN  FAdd(log_prior(theta_1, theta_2), SeriesSum(terms))

\* np.vectorize(log_posterior_helper) over the two matrices
log_posterior(XX, YY, df) ==
    [i \in 1..Len(XX) |->
        [j \in 1..Len(XX[i]) |-> log_posterior_helper(XX[i][j], YY[i][j], df)]]

\* ndarray.max of a non-empty flat array: a NaN entry makes the result NaN
RECURSIVE MaxOf(_)
MaxOf(s) ==
    IF Len(s) = 1 THEN s[1]
    ELSE LET m == MaxOf(Tail(s))
         IN  IF s[1].k = "nan" \/ m.k = "nan" THEN NaN
             ELSE IF FLess(m, s[1]) THEN s[1] ELSE m

ArrayMax(A) == MaxOf(Ravel(A))

\* Z = np.exp(log_Z - max_log_Z) * np.exp(max_log_Z)
Normalise(lz, mx) ==
    [i \in 1..Len(lz) |->
        [j \in 1..Len(lz[i]) |-> FMul(FExp(FSub(lz[i][j], mx)), FExp(mx))]]

\* ------------------------------------------------------------ random source
\* the generator's next state; a linear congruential generator stands for
\* the Mersenne twister of np.random
RngNext(s) == (5 * s + 3) % RngMod

\* the state after n draws
RECURSIVE RngAfter(_, _)
RngAfter(s, n) == IF n = 0 THEN s ELSE RngNext(RngAfter(s, n - 1))

\* a seeding that leaves the generator where it is
SeedIgnored(s, n) == s

\* np.random.seed(n) on a generator in state s
Seed(s, n) == n % RngMod

\* np.random.random(n) / random_sample(n): n numbers of [0, 1), in draw order
RandomSample(s, n) == [i \in 1..n |-> Fin(RngAfter(s, i), RngMod)]

\* the log entries of n draws made for `use`
Drawn(s, n, use) == [i \in 1..n |-> [use |-> use, state |-> RngAfter(s, i)]]

\* ------------------------------------------------------------ grid sampling
\* np.sum of an ndarray
RECURSIVE ArraySum(_)
ArraySum(s) == IF Len(s) = 0 THEN Zero ELSE FAdd(s[1], ArraySum(Tail(s)))

\* probs = np.ravel(Z) / np.sum(Z)
NormaliseProbs(ZZ) ==
    LET w == Ravel(ZZ)
    IN  [k \in 1..Len(w) |-> FDiv(w[k], ArraySum(w))]

\* np.allclose(a, 1): the tolerance is far above the resolution of the floats
CloseToOne(a) ==
    /\ IsFin(a)
    /\ Abs(a.n - a.d) * Pow2(ExpRange \div 2) <= a.d

\* a draw that checks nothing of p
ChoiceAcceptsAny(p) == TRUE

\* the checks np.random.choice makes of p before it draws: it raises
\* ValueError when an entry is negative or the sum is not close to 1 (a NaN
\* sum is not)
ChoiceAccepts(p) ==
    /\ \A k \in 1..Len(p) : ~FLess(p[k], Zero)
    /\ CloseToOne(ArraySum(p))

\* p.cumsum()
Cumsum(p) == [k \in 1..Len(p) |-> ArraySum(SubSeq(p, 1, k))]

\* cdf.searchsorted(u, side='right'): how many entries of cdf are <= u
SearchSorted(cdf, u) == Cardinality({k \in 1..Len(cdf) : FLeq(cdf[k], u)})

\* the indices np.random.choice(len(p), size, p=p) draws from the uniforms us
Choice(p, us) ==
    LET c == Cumsum(p)
        cdf == [k \in 1..Len(c) |-> FDiv(c[k], c[Len(c)])]
    IN  [i \in 1..Len(us) |-> SearchSorted(cdf, us[i])]

\* the transposed decoding of the column, and a row rounded to the nearest
\* integer instead of truncated
ColOfTransposed(k, num) == k \div num
RowOfRounded(k, num) == (2 * k + num) \div (2 * num)

\* throws % grid_num and throws / grid_num (integer division) of one index
ColOf(k, num) == k % num
RowOf(k, num) == k \div num

\* an indexing whose result shares the buffer of the array it indexes
FancyIndexView(m, a, idx) ==
    [mem |-> [m EXCEPT ![a] = [i \in 1..Len(idx) |-> m[a][idx[i] + 1]]],
     addr |-> a]

\* a[idx] for an index array idx: a new array, never a view of a
FancyIndex(m, a, idx) ==
    [mem |-> Append(m, [i \in 1..Len(idx) |-> m[a][idx[i] + 1]]),
     addr |-> Len(m) + 1]

\* float(hi - lo) / (grid_num - 1)
GridSize(lo, hi, num) == FDiv(Int2F(hi - lo), Int2F(num - 1))

\* a jitter that is not centred on the grid point
JitterUncentred(u, size) == FMul(u, size)

\* one entry's jitter: u * size - 0.5 * size
Jitter(u, size) == FSub(FMul(u, size), FMul(Fin(1, 2), size))

\* a += np.random.random(len(a)) * size - 0.5 * size, in place at address a
AddJitter(m, a, us, size) ==
    [m EXCEPT ![a] = [i \in 1..Len(m[a]) |-> FAdd(m[a][i], Jitter(us[i], size))]]

\* ------------------------------------------------------------ normal approximation
\* what scipy.optimize.minimize may return: the optimizer is not modelled,
\* its result is any of these (converged or not; the inverse Hessian of
\* BFGS is symmetric and positive semi-definite)
ModePoints == { <<Zero, Zero>>, <<One, Int2F(5)>>, <<Fin(1, 2), Int2F(3)>> }
HessInvs ==
    { << <<One, Zero>>, <<Zero, One>> >>,
      << <<Int2F(2), One>>, <<One, One>> >>,
      << <<One, Int2F(2)>>, <<Int2F(2), Int2F(4)>> >> }
MinimizeResults == [success : BOOLEAN, x : ModePoints, hess_inv : HessInvs]

Det2(A) == FSub(FMul(A[1][1], A[2][2]), FMul(A[1][2], A[2][1]))

\* the product A b in place of the solution of A v = b
SolveAsProduct(A, b) ==
    << FAdd(FMul(A[1][1], b[1]), FMul(A[1][2], b[2])),
       FAdd(FMul(A[2][1], b[1]), FMul(A[2][2], b[2])) >>

\* linalg.solve(A, b) for a 2x2 matrix A: the solution of A v = b
\* (a singular A raises LinAlgError: see Singular)
Solve2(A, b) ==
    << FDiv(FSub(FMul(b[1], A[2][2]), FMul(A[1][2], b[2])), Det2(A)),
       FDiv(FSub(FMul(A[1][1], b[2]), FMul(A[2][1], b[1])), Det2(A)) >>

Singular(A) == IsZero(Det2(A))

\* -(theta_vec - theta_mode) * linalg.solve(hess_inv, (theta_vec - theta_mode).transpose())
log_asymp_posterior_helper(theta_1, theta_2, mode, hess_inv) ==
    LET d == <<FSub(theta_1, mode[1]), FSub(theta_2, mode[2])>>
        v == Solve2(hess_inv, d)
    IN  FNeg(FAdd(FMul(d[1], v[1]), FMul(d[2], v[2])))

\* np.vectorize(log_asymp_posterior_helper) over the two matrices
log_asymp_posterior(XX, YY, mode, hess_inv) ==
    [i \in 1..Len(XX) |->
        [j \in 1..Len(XX[i]) |->
            log_asymp_posterior_helper(XX[i][j], YY[i][j], mode, hess_inv)]]

\* ------------------------------------------------------------ the notebook
NoFloat == NaN
NoRes == [success |-> FALSE, x |-> <<>>, hess_inv |-> <<>>]

Init ==
    /\ pc = "linspace"
    /\ err = ""
    /\ grid_num \in 2..MaxGridNum
    /\ \E l \in Theta1Limits : theta1_min = l[1] /\ theta1_max = l[2]
    /\ \E l \in Theta2Limits : theta2_min = l[1] /\ theta2_max = l[2]
    /\ seed \in Seeds
    /\ rng \in RngStates
    /\ mem = <<>>
    /\ x = 0 /\ y = 0
    /\ X = <<>> /\ Y = <<>>
    /\ log_Z = <<>> /\ max_log_Z = NoFloat /\ Z = <<>>
    /\ probs = <<>> /\ throws = <<>>
    /\ theta1s = 0 /\ theta2s = 0
    /\ res = NoRes /\ theta_mode = <<>>
    /\ runs = 0 /\ prev_samples = <<>> /\ rng_log = <<>>

\* x = np.linspace(...); y = np.linspace(...); X, Y = np.meshgrid(x, y)
MakeAxesAt(from, to) ==
    /\ pc = from
    /\ LET xv == Linspace(theta1_min, theta1_max, grid_num)
           yv == Linspace(theta2_min, theta2_max, grid_num)
       IN  /\ mem' = mem \o <<xv, yv>>
           /\ x' = Len(mem) + 1
           /\ y' = Len(mem) + 2
           /\ X' = MeshgridX(xv, yv)
           /\ Y' = MeshgridY(xv, yv)
    /\ pc' = to
    /\ UNCHANGED <<err, config, rng, log_Z, max_log_Z, Z, sampling, laplace, history>>

\* lines 64-66
MakeAxes == MakeAxesAt("linspace", "evaluate")

\* line 67: log_Z = log_posterior(X, Y, animals, deaths, dose)
EvaluateGrid ==
    /\ pc = "evaluate"
    /\ log_Z' = log_posterior(X, Y, bioassay_df)
    /\ pc' = "normalise"
    /\ UNCHANGED <<err, config, rng, mem, x, y, X, Y, max_log_Z, Z, sampling,
                   laplace, history>>

\* max_log_Z = log_Z.max(); Z = np.exp(log_Z - max_log_Z) * np.exp(max_log_Z)
NormaliseGridAt(from, to) ==
    /\ pc = from
    /\ max_log_Z' = ArrayMax(log_Z)
    /\ Z' = Normalise(log_Z, ArrayMax(log_Z))
    /\ pc' = to
    /\ UNCHANGED <<err, config, rng, mem, x, y, X, Y, log_Z, sampling, laplace,
                   history>>

\* lines 68-69
NormaliseGrid == NormaliseGridAt("normalise", "seed")

\* line 85: np.random.seed(135791)
SeedRng ==
    /\ pc = "seed"
    /\ rng' = Seed(rng, seed)
    /\ rng_log' = <<>>
    /\ pc' = "probs"
    /\ UNCHANGED <<err, config, mem, x, y, grid, sampling, laplace, runs, prev_samples>>

\* line 87: probs = np.ravel(Z) / np.sum(Z)
ComputeProbs ==
    /\ pc = "probs"
    /\ probs' = NormaliseProbs(Z)
    /\ pc' = "choice"
    /\ UNCHANGED <<err, config, rng, mem, x, y, grid, throws, theta1s, theta2s,
                   laplace, history>>

\* line 89: throws = np.random.choice(len(probs), 1000, p=probs)
DrawThrows ==
    /\ pc = "choice"
    /\ ChoiceAccepts(probs)
    /\ throws' = Choice(probs, RandomSample(rng, NumSamples))
    /\ rng' = RngAfter(rng, NumSamples)
    /\ rng_log' = rng_log \o Drawn(rng, NumSamples, "index")
    /\ pc' = "decode"
    /\ UNCHANGED <<err, config, mem, x, y, grid, probs, theta1s, theta2s, laplace,
                   runs, prev_samples>>

\* line 89, when np.random.choice rejects probs
DrawThrowsRaises ==
    /\ pc = "choice"
    /\ ~ChoiceAccepts(probs)
    /\ err' = "ValueError"
    /\ pc' = "stopped"
    /\ UNCHANGED <<config, rng, mem, x, y, grid, sampling, laplace, history>>

\* lines 90-91: theta1s = x[throws % grid_num]; theta2s = y[throws / grid_num]
DecodeThrows ==
    /\ pc = "decode"
    /\ LET cols == [i \in 1..Len(throws) |-> ColOf(throws[i], grid_num)]
           rows == [i \in 1..Len(throws) |-> RowOf(throws[i], grid_num)]
           t1 == FancyIndex(mem, x, cols)
           t2 == FancyIndex(t1.mem, y, rows)
       IN  /\ mem' = t2.mem
           /\ theta1s' = t1.addr
           /\ theta2s' = t2.addr
    /\ pc' = "jitter1"
    /\ UNCHANGED <<err, config, rng, x, y, grid, probs, throws, laplace, history>>

\* lines 92-95: theta1s += np.random.random(len(theta1s)) * xgrid_size - 0.5 * xgrid_size
JitterTheta1 ==
    /\ pc = "jitter1"
    /\ LET n == Len(mem[theta1s])
       IN  /\ mem' = AddJitter(mem, theta1s, RandomSample(rng, n),
                               GridSize(theta1_min, theta1_max, grid_num))
           /\ rng' = RngAfter(rng, n)
           /\ rng_log' = rng_log \o Drawn(rng, n, "theta1")
    /\ pc' = "jitter2"
    /\ UNCHANGED <<err, config, x, y, grid, sampling, laplace, runs, prev_samples>>

\* line 96: theta2s += np.random.random(len(theta2s)) * ygrid_size - 0.5 * ygrid_size
JitterTheta2 ==
    /\ pc = "jitter2"
    /\ LET n == Len(mem[theta2s])
       IN  /\ mem' = AddJitter(mem, theta2s, RandomSample(rng, n),
                               GridSize(theta2_min, theta2_max, grid_num))
           /\ rng' = RngAfter(rng, n)
           /\ rng_log' = rng_log \o Drawn(rng, n, "theta2")
    /\ runs' = runs + 1
    /\ pc' = "sampled"
    /\ UNCHANGED <<err, config, x, y, grid, sampling, laplace, prev_samples>>

\* the samples and the use made of the random source by the execution of
\* the sampling cell that just ended
SampleSet == [theta1s |-> mem[theta1s], theta2s |-> mem[theta2s], log |-> rng_log]

\* the sampling cell (lines 84-103) is executed once more
RerunSampling ==
    /\ pc = "sampled"
    /\ runs < MaxRuns
    /\ prev_samples' = SampleSet
    /\ pc' = "seed"
    /\ UNCHANGED <<err, config, rng, mem, x, y, grid, sampling, laplace, runs, rng_log>>

\* lines 128-129: res = scipy.optimize.minimize(lambda x: -log_posterior(...), (0, 0))
Minimize ==
    /\ pc = "sampled"
    /\ res' \in MinimizeResults
    /\ pc' = "mode"
    /\ UNCHANGED <<err, config, rng, mem, x, y, grid, sampling, theta_mode, history>>

\* line 133: theta_mode = res.x
TakeMode ==
    /\ pc = "mode"
    /\ theta_mode' = res.x
    /\ pc' = "linspace2"
    /\ UNCHANGED <<err, config, rng, mem, x, y, grid, sampling, res, history>>

\* lines 152-159
MakeAxes2 == MakeAxesAt("linspace2", "evaluate2")

\* line 160: log_Z = log_asymp_posterior(X, Y)
EvaluateLaplace ==
    /\ pc = "evaluate2"
    /\ ~Singular(res.hess_inv)
    /\ log_Z' = log_asymp_posterior(X, Y, theta_mode, res.hess_inv)
    /\ pc' = "normalise2"
    /\ UNCHANGED <<err, config, rng, mem, x, y, X, Y, max_log_Z, Z, sampling,
                   laplace, history>>

\* line 160, when linalg.solve finds res.hess_inv singular
EvaluateLaplaceRaises ==
    /\ pc = "evaluate2"
    /\ Singular(res.hess_inv)
    /\ err' = "LinAlgError"
    /\ pc' = "stopped"
    /\ UNCHANGED <<config, rng, mem, x, y, grid, sampling, laplace, history>>

\* lines 161-162
NormaliseGrid2 == NormaliseGridAt("normalise2", "done")

Next ==
    \/ MakeAxes \/ EvaluateGrid \/ NormaliseGrid
    \/ SeedRng \/ ComputeProbs \/ DrawThrows \/ DrawThrowsRaises
    \/ DecodeThrows \/ JitterTheta1 \/ JitterTheta2 \/ RerunSampling
    \/ Minimize \/ TakeMode
    \/ MakeAxes2 \/ EvaluateLaplace \/ EvaluateLaplaceRaises \/ NormaliseGrid2

Spec == Init /\ [][Next]_vars

\* ------------------------------------------------------------ properties
FAbs(a) == IF FLess(a, Zero) THEN FNeg(a) ELSE a

\* the statements of the sampling cell (lines 84-96) not yet executed
SamplingPcs == {"seed", "probs", "choice", "decode", "jitter1", "jitter2"}
\* the first grid (lines 64-69) is complete and the sampling cell is running
\* or has just ended
GridSampled == pc \in SamplingPcs \cup {"sampled"}

Cells(A) == {c \in (1..Len(A)) \X (1..Shape(A)[2]) : TRUE}
FlatIndices(A) == 0..(Len(A) * Shape(A)[2] - 1)

\* C1: decoding a flattened index k as (x[k mod grid_num], y[k div grid_num])
\* gives the very point at which the grid cell flattened to position k was
\* evaluated: for every index of the flattened grid, and for the base sample
\* points of the draws before any jitter is added
C1_DecodeInvertsFlattening ==
    /\ GridSampled =>
         \A k \in FlatIndices(Z) :
            LET t1 == mem[x][ColOf(k, grid_num) + 1]
                t2 == mem[y][RowOf(k, grid_num) + 1]
            IN  /\ t1 = Ravel(X)[k + 1]
                /\ t2 = Ravel(Y)[k + 1]
                /\ Ravel(log_Z)[k + 1] = log_posterior_helper(t1, t2, bioassay_df)
    /\ pc = "jitter1" =>
         \A i \in 1..Len(throws) :
            /\ mem[theta1s][i] = Ravel(X)[throws[i] + 1]
            /\ mem[theta2s][i] = Ravel(Y)[throws[i] + 1]

\* a draw of a cell off the diagonal has been decoded: a transposed decoding
\* would give another point
C1_Witness ==
    /\ pc = "jitter1"
    /\ \E i \in 1..Len(throws) :
          /\ throws[i] \div grid_num # throws[i] % grid_num
          /\ mem[theta1s][i] # mem[theta2s][i]

\* C8: for the R x C grid and every flattened index k in [0, R*C), the
\* decoded row and column re-encode to k and are in range of the two axes
C8_IndexRoundTrip ==
    GridSampled =>
      LET R == Shape(Z)[1]
          C == Shape(Z)[2]
      IN  \A k \in FlatIndices(Z) \cup {throws[i] : i \in 1..Len(throws)} :
            LET row == RowOf(k, grid_num)
                col == ColOf(k, grid_num)
            IN  /\ row * C + col = k
                /\ 0 <= row /\ row < R /\ row < Len(mem[y])
                /\ 0 <= col /\ col < C /\ col < Len(mem[x])

\* a drawn index whose row and column are both non-zero has been decoded
C8_Witness ==
    /\ pc = "jitter1"
    /\ \E i \in 1..Len(throws) :
          /\ throws[i] >= grid_num
          /\ throws[i] % grid_num # 0
          /\ mem[theta1s][i] = mem[x][(throws[i] % grid_num) + 1]

\* half of (hi - lo) / (grid_num - 1)
HalfCell(lo, hi) == FDiv(Int2F(hi - lo), Int2F(2 * (grid_num - 1)))

\* C2: after its jitter is added each sampled theta1 lies within half a
\* cell-width of theta1_axis[col], and each sampled theta2 within half a
\* cell-height of theta2_axis[row]
C2_JitterBounds ==
    /\ pc \in {"jitter2", "sampled"} =>
         \A i \in 1..Len(throws) :
            FLeq(FAbs(FSub(mem[theta1s][i], mem[x][(throws[i] % grid_num) + 1])),
                 HalfCell(theta1_min, theta1_max))
    /\ pc = "sampled" =>
         \A i \in 1..Len(throws) :
            FLeq(FAbs(FSub(mem[theta2s][i], mem[y][(throws[i] \div grid_num) + 1])),
                 HalfCell(theta2_min, theta2_max))

\* both jitters are added and one draw was moved off its grid point in both
\* coordinates, one of them by the full half-cell
C2_Witness ==
    /\ pc = "sampled"
    /\ \E i \in 1..Len(throws) :
          /\ mem[theta1s][i] # mem[x][(throws[i] % grid_num) + 1]
          /\ mem[theta2s][i] # mem[y][(throws[i] \div grid_num) + 1]
    /\ \E i \in 1..Len(throws) :
          FAbs(FSub(mem[theta1s][i], mem[x][(throws[i] % grid_num) + 1]))
             = HalfCell(theta1_min, theta1_max)

\* the sum of the grid weights is zero or not finite
BadWeightSum == ~IsFin(ArraySum(Ravel(Z))) \/ IsZero(ArraySum(Ravel(Z)))

\* C3: when the sum of the grid weights is zero or non-finite the sampling
\* stops with an error at the draw and no index is drawn; otherwise probs
\* are non-negative and sum to 1 (within the tolerance of the floats)
C3_InvalidDistributionRejected ==
    /\ pc = "choice" => (BadWeightSum <=> ~ChoiceAccepts(probs))
    /\ (pc = "stopped" /\ err = "ValueError") => BadWeightSum /\ throws = <<>>
    /\ pc \in {"decode", "jitter1", "jitter2", "sampled"} =>
          /\ ~BadWeightSum
          /\ \A k \in 1..Len(probs) : IsFin(probs[k]) /\ FLeq(Zero, probs[k])
          /\ LET t == ArraySum(probs)
             IN  IsFin(t) /\ Abs(t.n - t.d) * Pow2(ExpRange \div 2) <= t.d

\* the sampling stopped on a grid whose weights are all zero
C3_Witness ==
    /\ pc = "stopped" /\ err = "ValueError"
    /\ IsZero(ArraySum(Ravel(Z)))
    /\ \A c \in Cells(log_Z) : IsFin(log_Z[c[1]][c[2]])

\* C4: after normalisation the largest normalised value sits in the cell that
\* holds the largest log-value, and every normalised cell is non-negative
C4_MaxCellPreserved ==
    pc \in SamplingPcs \cup {"sampled", "stopped", "done"} =>
      /\ \A c \in Cells(Z) : FLeq(Zero, Z[c[1]][c[2]])
      /\ \A c \in Cells(Z) :
            (\A o \in Cells(Z) : FLeq(log_Z[o[1]][o[2]], log_Z[c[1]][c[2]]))
               => \A o \in Cells(Z) : FLeq(Z[o[1]][o[2]], Z[c[1]][c[2]])

\* C5: an execution of the sampling cell that follows another one produces
\* the same samples in the same order and draws from the random source for
\* the same uses in the same sequence: the indices, the theta1 jitters, the
\* theta2 jitters
C5_Reproducible ==
    (pc = "sampled" /\ runs >= 2) =>
      /\ SampleSet = prev_samples
      /\ Len(rng_log) = 3 * NumSamples
      /\ \A i \in 1..Len(rng_log) :
            rng_log[i].use = (IF i <= NumSamples THEN "index"
                              ELSE IF i <= 2 * NumSamples THEN "theta1"
                              ELSE "theta2")

\* the cell has been executed twice, and the generator was not left in the
\* state the seed puts it in
C5_Witness ==
    /\ pc = "sampled" /\ runs = 2
    /\ prev_samples # <<>>
    /\ rng # Seed(rng, seed)

\* C6: the log-posterior of every grid point is finite, whatever the finite
\* theta1 and theta2, also where exp(score) or exp(-score) overflows
C6_LogPosteriorFinite ==
    GridSampled => \A c \in Cells(log_Z) : IsFin(log_Z[c[1]][c[2]])

\* C7: a mode and an inverse Hessian are taken from the optimizer's result,
\* and the normal approximation evaluated with them, only when the optimizer
\* reported convergence
C7_ModeOnlyIfConverged ==
    /\ theta_mode # <<>> => res.success
    /\ pc \in {"normalise2", "done"} => res.success

SymPosDef(A) ==
    /\ A[1][2] = A[2][1]
    /\ FLess(Zero, A[1][1])
    /\ FLess(Zero, Det2(A))

\* (p - mode)^T A^{-1} (p - mode) for d = p - mode, by the adjugate of A
QuadForm(A, d) ==
    FDiv(FAdd(FSub(FMul(A[2][2], FMul(d[1], d[1])),
                   FMul(FAdd(A[1][2], A[2][1]), FMul(d[1], d[2]))),
              FMul(A[1][1], FMul(d[2], d[2]))),
         Det2(A))

\* C9: every cell of the normal approximation's grid holds
\* -(p - mode)^T Sigma^{-1} (p - mode); for a symmetric positive-definite
\* Sigma that is 0 at the mode and negative elsewhere, so a mode on the grid
\* is the only cell holding the maximum
C9_NegativeQuadraticForm ==
    pc \in {"normalise2", "done"} =>
      /\ \A c \in Cells(log_Z) :
            LET d == <<FSub(X[c[1]][c[2]], theta_mode[1]),
                       FSub(Y[c[1]][c[2]], theta_mode[2])>>
                v == log_Z[c[1]][c[2]]
            IN  /\ v = FNeg(QuadForm(res.hess_inv, d))
                /\ SymPosDef(res.hess_inv) =>
                      IF d = <<Zero, Zero>> THEN v = Zero ELSE FLess(v, Zero)
      /\ (pc = "done" /\ SymPosDef(res.hess_inv)
            /\ \E c \in Cells(log_Z) :
                  <<X[c[1]][c[2]], Y[c[1]][c[2]]>> = theta_mode) =>
            /\ max_log_Z = Zero
            /\ Cardinality({c \in Cells(log_Z) : log_Z[c[1]][c[2]] = max_log_Z}) = 1

\* the grid of the normal approximation is complete, the mode is one of its
\* points and the inverse Hessian has correlated components
C9_Witness ==
    /\ pc = "done"
    /\ res.hess_inv[1][2] # Zero
    /\ \E c \in Cells(log_Z) : <<X[c[1]][c[2]], Y[c[1]][c[2]]>> = theta_mode
    /\ \E c \in Cells(log_Z) : FLess(log_Z[c[1]][c[2]], Zero)

\* what a step of the sampling cell leaves alone
SamplingStepReadOnly ==
    pc \in SamplingPcs =>
       /\ x' = x /\ y' = y
       /\ mem'[x] = mem[x] /\ mem'[y] = mem[y]
       /\ X' = X /\ Y' = Y /\ log_Z' = log_Z /\ Z' = Z
       /\ max_log_Z' = max_log_Z
       /\ theta1s' \notin {x, y} /\ theta2s' \notin {x, y}
       /\ (theta1s' # 0 => theta1s' # theta2s')

\* C10: no statement of the sampling cell changes the two axis arrays, the
\* log-density grid or the normalised grid, and the sample arrays are arrays
\* of their own
C10_SamplingReadOnly == [][SamplingStepReadOnly]_vars

\* the jitter was added in place to sample arrays that are not the axes
C10_Witness ==
    /\ pc = "sampled"
    /\ {theta1s, theta2s} \cap {x, y} = {}
    /\ \E i \in 1..Len(throws) :
          mem[theta1s][i] # mem[x][(throws[i] % grid_num) + 1]
    /\ mem[x] = Linspace(theta1_min, theta1_max, grid_num)

=============================================================================
